---- MODULE Spec2Model ----
(***************************************************************************)
(* Model of src/main.py, the AutoStream conversational agent: the intent   *)
(* classifier, the e-mail validator, the conversation state and the        *)
(* dialogue controller handle_user_input with its lead-capture funnel.     *)
(*                                                                         *)
(* Text is modelled as a sequence of one-character strings, so that        *)
(* str.strip, str.lower, the substring tests of detect_intent and the      *)
(* regular expression of is_valid_email are computed on characters.  The   *)
(* fixed replies are one-piece texts; their non-ASCII characters (the dash *)
(* and the emoji of the source) are written in ASCII.                      *)
(***************************************************************************)
EXTENDS Integers, Sequences, FiniteSets, TLC

VARIABLES
    awaiting_field,   \* state.awaiting_field: None or "name", "email", "platform"
    lead_data,        \* state.lead_data: dict field -> text
    memory,           \* state.memory: deque(maxlen = history_turns) of turns
    llm,              \* the module global llm: TRUE when a client was built
    pc,               \* "running", "ended" (loop left) or "crashed" (uncaught raise)
    captures,         \* log of the invocations of mock_lead_capture
    printed,          \* what the latest call of handle_user_input printed
    trace,            \* the calls made so far: the raw utterance and the state before
    line,             \* the latest line main read from its input (<<>> before the first)
    fn_arg,           \* the argument a pure function is applied to
    fn_result         \* <<>> before the application, <<its result>> after

vars == <<awaiting_field, lead_data, memory, llm, pc, captures, printed, trace,
          line, fn_arg, fn_result>>

-----------------------------------------------------------------------------
(* Bounds *)

\* Number of calls of handle_user_input in one run, utterances drawn from
\* Utterances, and number of lines main reads in one run.
MaxTurns == 5

\* Number of calls of handle_user_input in one long run, utterances drawn from
\* LongUtterances: enough for history_turns + 1 turns and for two funnels.
MaxLongTurns == 8

\* Number of pieces a text given to detect_intent is made of.
MaxPieces == 3

\* Length of the texts given to is_valid_email.
MaxEmailLen == 6

\* The number of calls after which a run under fairness only finishes the
\* funnel it is in.
MaxLiveTurns == 5

-----------------------------------------------------------------------------
(* Python values *)

None == "None"

\* None where a text is expected (dict.get of a missing key).
NoneText == <<None>>

\* str(None), as an f-string renders it.
Format(x) == IF x = NoneText THEN <<"N", "o", "n", "e">> ELSE x

EmptyDict == [k \in {} |-> <<>>]

\* d[k] = v
DictSet(d, k, v) == [j \in (DOMAIN d) \cup {k} |-> IF j = k THEN v ELSE d[j]]

\* d.get(k)
DictGet(d, k) == IF k \in DOMAIN d THEN d[k] ELSE NoneText

-----------------------------------------------------------------------------
(* Text helpers: str.strip, str.lower, the `in` operator on str *)

Whitespace == {" ", "\t", "\n", "\r", "\f"}

RECURSIVE lstrip(_)
lstrip(s) == IF s # <<>> /\ Head(s) \in Whitespace THEN lstrip(Tail(s)) ELSE s

RECURSIVE rstrip(_)
rstrip(s) ==
    IF s # <<>> /\ s[Len(s)] \in Whitespace
    THEN rstrip(SubSeq(s, 1, Len(s) - 1))
    ELSE s

strip(s) == rstrip(lstrip(s))

UpperToLower ==
    ("A" :> "a") @@ ("B" :> "b") @@ ("C" :> "c") @@ ("D" :> "d") @@
    ("E" :> "e") @@ ("F" :> "f") @@ ("G" :> "g") @@ ("H" :> "h") @@
    ("I" :> "i") @@ ("J" :> "j") @@ ("K" :> "k") @@ ("L" :> "l") @@
    ("M" :> "m") @@ ("N" :> "n") @@ ("O" :> "o") @@ ("P" :> "p") @@
    ("Q" :> "q") @@ ("R" :> "r") @@ ("S" :> "s") @@ ("T" :> "t") @@
    ("U" :> "u") @@ ("V" :> "v") @@ ("W" :> "w") @@ ("X" :> "x") @@
    ("Y" :> "y") @@ ("Z" :> "z")

lower(s) ==
    [i \in 1..Len(s) |-> IF s[i] \in DOMAIN UpperToLower THEN UpperToLower[s[i]] ELSE s[i]]

\* tok in t
Contains(t, tok) ==
    \E i \in 0..(Len(t) - Len(tok)) : SubSeq(t, i + 1, i + Len(tok)) = tok

\* any(tok in t for tok in toks)
AnyIn(toks, t) == \E k \in 1..Len(toks) : Contains(t, toks[k])

-----------------------------------------------------------------------------
(* detect_intent *)

high_intent_tokens ==
    << <<"s","i","g","n"," ","u","p">>,
       <<"s","i","g","n","u","p">>,
       <<"i"," ","w","a","n","t"," ","t","o"," ","s","i","g","n">>,
       <<"i"," ","w","a","n","t"," ","t","o"," ","t","r","y">>,
       <<"i"," ","w","a","n","t"," ","t","o"," ","s","i","g","n"," ","u","p">>,
       <<"i","'","l","l"," ","t","a","k","e">>,
       <<"i"," ","w","i","l","l"," ","t","a","k","e">>,
       <<"i"," ","w","a","n","t"," ","t","o"," ","s","u","b","s","c","r","i","b","e">>,
       <<"s","u","b","s","c","r","i","b","e">>,
       <<"b","u","y">>,
       <<"g","e","t"," ","s","t","a","r","t","e","d">>,
       <<"g","e","t"," ","p","r","o">>,
       <<"s","t","a","r","t"," ","t","r","i","a","l">>,
       <<"p","r","o"," ","p","l","a","n">>,
       <<"i"," ","w","a","n","t"," ","t","h","e"," ","p","r","o">>,
       <<"i"," ","w","a","n","t"," ","p","r","o">> >>

pricing_tokens ==
    << <<"p","r","i","c","e">>,
       <<"p","r","i","c","i","n","g">>,
       <<"c","o","s","t">>,
       <<"p","l","a","n">>,
       <<"f","e","a","t","u","r","e","s">>,
       <<"b","a","s","i","c"," ","p","l","a","n">>,
       <<"p","r","o"," ","p","l","a","n">> >>

greeting_tokens ==
    << <<"h","i">>,
       <<"h","e","l","l","o">>,
       <<"h","e","y">>,
       <<"g","o","o","d"," ","m","o","r","n","i","n","g">>,
       <<"g","o","o","d"," ","e","v","e","n","i","n","g">> >>

policy_tokens ==
    << <<"r","e","f","u","n","d">>,
       <<"s","u","p","p","o","r","t">>,
       <<"p","o","l","i","c","y">> >>

\* Mutant: the pricing group is tested before the high-intent group.
detect_intent_pricing_first(text) ==
    LET t == lower(text)
    IN  IF AnyIn(pricing_tokens, t) THEN "pricing"
        ELSE IF AnyIn(high_intent_tokens, t) THEN "high_intent"
        ELSE IF AnyIn(greeting_tokens, t) THEN "greeting"
        ELSE "other"

detect_intent(text) ==
    LET t == lower(text)
    IN  IF AnyIn(high_intent_tokens, t) THEN "high_intent"
        ELSE IF AnyIn(pricing_tokens, t) THEN "pricing"
        ELSE IF AnyIn(greeting_tokens, t) THEN "greeting"
        ELSE "other"

-----------------------------------------------------------------------------
(* Knowledge base answers *)

\* A knowledge document of the shape rag_knowledge.json has.
KB ==
    [pricing |->
        [basic |-> [price |-> <<"$9">>, videos |-> <<"10 videos">>,
                    resolution |-> <<"720p">>],
         pro   |-> [price |-> <<"$29">>, videos |-> <<"unlimited">>,
                    resolution |-> <<"4K">>,
                    features |-> << <<"captions">>, <<"support">> >>]],
     policies |-> [refund |-> <<"7 days">>, support |-> <<"24/7 on Pro">>]]

\* ', '.join(xs)
RECURSIVE Join(_)
Join(xs) ==
    IF xs = <<>> THEN <<>>
    ELSE IF Len(xs) = 1 THEN xs[1]
    ELSE xs[1] \o <<", ">> \o Join(Tail(xs))

rag_pricing_answer ==
    LET basic == KB.pricing.basic
        pro == KB.pricing.pro
        basic_text == <<"Basic Plan: ">> \o basic.price \o <<" , ">> \o basic.videos
                        \o <<" , ">> \o basic.resolution
        pro_text == <<"Pro Plan: ">> \o pro.price \o <<" , ">> \o pro.videos
                        \o <<" , ">> \o pro.resolution
        features == pro.features
        pro_full == IF features # <<>>
                    THEN pro_text \o <<" (Features: ">> \o Join(features) \o <<")">>
                    ELSE pro_text
    IN  basic_text \o <<"\n">> \o pro_full

rag_policy_answer ==
    <<"Refund policy: ">> \o KB.policies.refund \o <<". Support: ">>
        \o KB.policies.support \o <<".">>

-----------------------------------------------------------------------------
(* Validators *)

\* EMAIL_RE.fullmatch(s.strip()) for EMAIL_RE = [^@]+@[^@]+\.[^@]+ : the one
\* "@" at position i, a "." at position j after it, and a non-empty run of
\* non-"@" characters before i, between i and j, and after j.
\* Mutant: the argument is matched without strip().
is_valid_email_unstripped(s) ==
    \E i \in 1..Len(s) : \E j \in 1..Len(s) :
        /\ s[i] = "@"
        /\ s[j] = "."
        /\ 1 < i
        /\ i + 1 < j
        /\ j < Len(s)
        /\ \A k \in 1..Len(s) : k # i => s[k] # "@"

\* Mutant: the bound method fullmatch is tested instead of its result.
is_valid_email_always(s) == TRUE

is_valid_email(s) ==
    LET t == strip(s)
    IN  \E i \in 1..Len(t) : \E j \in 1..Len(t) :
            /\ t[i] = "@"
            /\ t[j] = "."
            /\ 1 < i
            /\ i + 1 < j
            /\ j < Len(t)
            /\ \A k \in 1..Len(t) : k # i => t[k] # "@"

FieldOrder == <<"name", "email", "platform">>

\* Mutant: the fields are tried in the order platform, email, name.
choose_next_field_reversed(collected) ==
    IF "platform" \notin DOMAIN collected THEN "platform"
    ELSE IF "email" \notin DOMAIN collected THEN "email"
    ELSE IF "name" \notin DOMAIN collected THEN "name"
    ELSE None

\* Mutant: the loop stops after "email".
choose_next_field_skip(collected) ==
    IF "name" \notin DOMAIN collected THEN "name"
    ELSE IF "email" \notin DOMAIN collected THEN "email"
    ELSE None

choose_next_field(collected) ==
    IF \E i \in 1..Len(FieldOrder) : FieldOrder[i] \notin DOMAIN collected
    THEN FieldOrder[CHOOSE i \in 1..Len(FieldOrder) :
                        /\ FieldOrder[i] \notin DOMAIN collected
                        /\ \A j \in 1..(i - 1) : FieldOrder[j] \in DOMAIN collected]
    ELSE None

-----------------------------------------------------------------------------
(* AgentState *)

history_turns == 6

\* Mutant: a deque without maxlen.
save_turn_unbounded(mem, user_text, agent_text) ==
    Append(mem, [user |-> user_text, agent |-> agent_text])

\* deque(maxlen = history_turns).append: the oldest entry leaves when full.
save_turn(mem, user_text, agent_text) ==
    LET appended == Append(mem, [user |-> user_text, agent |-> agent_text])
    IN  IF Len(appended) > history_turns THEN Tail(appended) ELSE appended

-----------------------------------------------------------------------------
(* Fixed replies *)

INVALID_EMAIL == <<"That doesn't look like a valid email. Please provide a valid email address.">>
FINAL_ACK == <<"Done - our team will reach out soon. Would you like a setup guide?">>
GREETING == <<"Hi! I can tell you about pricing or help you sign up for Pro.">>
HIGH_INTENT_PROMPT == <<"Awesome - I can help get you started. What's your full name?">>
LLM_UNAVAILABLE == <<"I can help with pricing or sign-up. Ask 'Tell me about pricing' or 'I want to sign up for Pro'.">>
LLM_ERROR == <<"Sorry - temporary LLM error. I can still help with pricing or sign-up.">>

prompt_map ==
    [name |-> <<"Great - what's your full name?">>,
     email |-> <<"Thanks. What's your email?">>,
     platform |-> <<"Which creator platform do you use? (YouTube, Instagram, etc.)">>]

\* f"Thanks {name}! Submitting your details now..."
SubmitAck(name) == <<"Thanks ">> \o Format(name) \o <<"! Submitting your details now...">>

\* f"\n Lead captured successfully: {name}, {email}, {platform}\n"
CaptureLine(name, email, platform) ==
    <<"\nLead captured successfully: ">> \o Format(name) \o <<", ">> \o Format(email)
        \o <<", ">> \o Format(platform) \o <<"\n">>

-----------------------------------------------------------------------------
(* LLM fallback *)

\* What a call llm(prompt) does: return a str, return a response object, or raise.
LlmOutcomes == {"str", "object", "raise"}

\* The text a successful call of the model returns for a prompt.
LlmText(prompt) == <<"(model reply)">>

\* Mutant: llm is called without the test "if not llm".
llm_reply_unchecked(available, prompt, outcome) ==
    IF ~available \/ outcome = "raise" THEN LLM_ERROR ELSE LlmText(prompt)

llm_reply(available, prompt, outcome) ==
    IF ~available THEN LLM_UNAVAILABLE
    ELSE IF outcome = "raise" THEN LLM_ERROR
    ELSE LlmText(prompt)

-----------------------------------------------------------------------------
(* handle_user_input, on a record st of the state it reads and writes:         *)
(* awaiting_field, lead_data, memory, llm, captures, printed, raised, turn,    *)
(* llm_call (what became of the call of the model in this call).               *)
(* fail names the output step of the call that raises, "none" when none does:  *)
(* "print" the first print of the path taken, "capture" the print inside       *)
(* mock_lead_capture, "final_print" the print of the closing line.             *)

FailPoints == {"none", "print", "capture", "final_print"}

\* print(text)
Emit(st, text) == [st EXCEPT !.printed = Append(@, text)]

\* An exception leaves the call: what was assigned so far stays assigned.
Raise(st) == [st EXCEPT !.raised = TRUE]

\* state.save_turn(user_text, agent_text); print(agent_text); return
Reply(st, user_text, agent_text, fail) ==
    LET saved == [st EXCEPT !.memory = save_turn(@, user_text, agent_text)]
    IN  IF fail = "print" THEN Raise(saved) ELSE Emit(saved, agent_text)

\* mock_lead_capture(name, email, platform), called with awaiting_field and
\* lead_data as they are at the call.
mock_lead_capture(st, name, email, platform, fail) ==
    LET called == [st EXCEPT !.captures =
                        Append(@, [name |-> name, email |-> email, platform |-> platform,
                                   awaiting |-> st.awaiting_field,
                                   fields |-> DOMAIN st.lead_data,
                                   turn |-> st.turn])]
    IN  IF fail = "capture" THEN Raise(called)
        ELSE Emit(called, CaptureLine(name, email, platform))

\* Mutant: the value is stored before it is validated.
InvalidEmail_stored(st, user_text, fail) ==
    Reply([st EXCEPT !.lead_data = DictSet(@, "email", user_text)],
          user_text, INVALID_EMAIL, fail)

\* The email was rejected: re-prompt.
InvalidEmail(st, user_text, fail) == Reply(st, user_text, INVALID_EMAIL, fail)

\* Mutant: the value is not stored.
StoreField_unstored(st, field, user_text) == st

\* Mutant: every value is stored under the key email.
StoreField_as_email(st, field, user_text) ==
    [st EXCEPT !.lead_data = DictSet(@, "email", strip(user_text))]

\* state.lead_data[field] = user_text.strip()
StoreField(st, field, user_text) ==
    [st EXCEPT !.lead_data = DictSet(@, field, strip(user_text))]

\* Mutant: the prompt for the next field is given but awaiting_field stays.
PromptNext_no_advance(st, next_field, user_text, fail) ==
    Reply(st, user_text, prompt_map[next_field], fail)

\* A field is still missing: ask for it.
PromptNext(st, next_field, user_text, fail) ==
    Reply([st EXCEPT !.awaiting_field = next_field], user_text, prompt_map[next_field], fail)

\* Mutant: the closing line is saved against the utterance.
SubmitLead_final_keyed(st, user_text, fail) ==
    LET name == DictGet(st.lead_data, "name")
        email == DictGet(st.lead_data, "email")
        platform == DictGet(st.lead_data, "platform")
        cleared == [st EXCEPT !.awaiting_field = None]
        acked == Reply(cleared, user_text, SubmitAck(name), fail)
        captured == mock_lead_capture(acked, name, email, platform, fail)
        saved == [captured EXCEPT !.memory = save_turn(@, user_text, FINAL_ACK)]
        closed == Emit(saved, FINAL_ACK)
    IN  [closed EXCEPT !.lead_data = EmptyDict]

\* Mutant: awaiting_field is cleared after the tool call.
SubmitLead_late_clear(st, user_text, fail) ==
    LET name == DictGet(st.lead_data, "name")
        email == DictGet(st.lead_data, "email")
        platform == DictGet(st.lead_data, "platform")
        acked == Reply(st, user_text, SubmitAck(name), fail)
        captured == mock_lead_capture(acked, name, email, platform, fail)
        saved == [captured EXCEPT !.memory = save_turn(@, <<>>, FINAL_ACK)]
        closed == Emit(saved, FINAL_ACK)
    IN  [closed EXCEPT !.lead_data = EmptyDict, !.awaiting_field = None]

\* Mutant: lead_data is not reset after the tool call.
SubmitLead_no_reset(st, user_text, fail) ==
    LET name == DictGet(st.lead_data, "name")
        email == DictGet(st.lead_data, "email")
        platform == DictGet(st.lead_data, "platform")
        cleared == [st EXCEPT !.awaiting_field = None]
        acked == Reply(cleared, user_text, SubmitAck(name), fail)
        captured == mock_lead_capture(acked, name, email, platform, fail)
        saved == [captured EXCEPT !.memory = save_turn(@, <<>>, FINAL_ACK)]
    IN  Emit(saved, FINAL_ACK)

\* Mutant: the tool is called with email and platform exchanged.
SubmitLead_swapped(st, user_text, fail) ==
    LET name == DictGet(st.lead_data, "name")
        email == DictGet(st.lead_data, "email")
        platform == DictGet(st.lead_data, "platform")
        cleared == [st EXCEPT !.awaiting_field = None]
        acked == Reply(cleared, user_text, SubmitAck(name), fail)
        captured == mock_lead_capture(acked, name, platform, email, fail)
        saved == [captured EXCEPT !.memory = save_turn(@, <<>>, FINAL_ACK)]
        closed == Emit(saved, FINAL_ACK)
    IN  [closed EXCEPT !.lead_data = EmptyDict]

\* All fields collected: acknowledge, call the tool, close, reset.
SubmitLead(st, user_text, fail) ==
    LET name == DictGet(st.lead_data, "name")
        email == DictGet(st.lead_data, "email")
        platform == DictGet(st.lead_data, "platform")
        cleared == [st EXCEPT !.awaiting_field = None]
        acked == Reply(cleared, user_text, SubmitAck(name), fail)
        captured == mock_lead_capture(acked, name, email, platform, fail)
        saved == [captured EXCEPT !.memory = save_turn(@, <<>>, FINAL_ACK)]
        closed == IF fail = "final_print" THEN Raise(saved) ELSE Emit(saved, FINAL_ACK)
    IN  IF acked.raised THEN acked
        ELSE IF captured.raised THEN captured
        ELSE IF closed.raised THEN closed
        ELSE [closed EXCEPT !.lead_data = EmptyDict]

\* The branch taken while a field is awaited.
Collecting(st, user_text, fail) ==
    LET field == st.awaiting_field
    IN  IF field = "email" /\ ~is_valid_email(user_text)
        THEN InvalidEmail(st, user_text, fail)
        ELSE LET stored == StoreField(st, field, user_text)
                 next_field == choose_next_field(stored.lead_data)
             IN  IF next_field # None
                 THEN PromptNext(stored, next_field, user_text, fail)
                 ELSE SubmitLead(stored, user_text, fail)

\* Mutant: the greeting is printed but not saved.
GreetingReply_unsaved(st, user_text, fail) == Emit(st, GREETING)

GreetingReply(st, user_text, fail) == Reply(st, user_text, GREETING, fail)

PricingReply(st, user_text, fail) ==
    LET agent_text == IF AnyIn(policy_tokens, lower(user_text))
                      THEN rag_policy_answer
                      ELSE rag_pricing_answer
    IN  Reply(st, user_text, agent_text, fail)

\* Mutant: the flow starts at the second field.
StartFunnel_skip_name(st, user_text, fail) ==
    Reply([st EXCEPT !.lead_data = EmptyDict, !.awaiting_field = "email"],
          user_text, HIGH_INTENT_PROMPT, fail)

\* Start the qualification flow.
StartFunnel(st, user_text, fail) ==
    Reply([st EXCEPT !.lead_data = EmptyDict, !.awaiting_field = "name"],
          user_text, HIGH_INTENT_PROMPT, fail)

\* What became of the call llm(prompt) inside llm_reply: "none" when llm is
\* None and no call is made, else "raised" or "returned".
LlmCall(available, outcome) ==
    IF ~available THEN "none" ELSE IF outcome = "raise" THEN "raised" ELSE "returned"

Fallback(st, user_text, outcome, fail) ==
    Reply([st EXCEPT !.llm_call = LlmCall(st.llm, outcome)],
          user_text, llm_reply(st.llm, user_text, outcome), fail)

\* The branch taken while no field is awaited.
Idle(st, user_text, outcome, fail) ==
    LET intent == detect_intent(user_text)
    IN  CASE intent = "greeting" -> GreetingReply(st, user_text, fail)
          [] intent = "pricing" -> PricingReply(st, user_text, fail)
          [] intent = "high_intent" -> StartFunnel(st, user_text, fail)
          [] OTHER -> Fallback(st, user_text, outcome, fail)

\* Mutant: a high-intent utterance is classified even while a field is awaited.
handle_user_input_restartable(st, raw, outcome, fail) ==
    LET user_text == strip(raw)
    IN  IF st.awaiting_field # None /\ detect_intent(user_text) # "high_intent"
        THEN Collecting(st, user_text, fail)
        ELSE Idle(st, user_text, outcome, fail)

handle_user_input(st, raw, outcome, fail) ==
    LET user_text == strip(raw)
    IN  IF st.awaiting_field # None
        THEN Collecting(st, user_text, fail)
        ELSE Idle(st, user_text, outcome, fail)

-----------------------------------------------------------------------------
(* The state machine *)

\* The utterances a run draws from: a high-intent phrase, a greeting, a padded
\* valid e-mail address (intent other), a pricing question, a blank line.
U_BUY == <<"B","u","y">>
U_HI == <<"h","i">>
U_MAIL == <<" ","a","@","b",".","c"," ">>
U_PRICE == <<"p","r","i","c","e">>
U_BLANK == <<" ">>

Utterances == {U_BUY, U_HI, U_MAIL, U_PRICE, U_BLANK}

\* The utterances of a long run: enough to enter a funnel, to have an e-mail
\* rejected and accepted, and to give two funnels different values.
LongUtterances == {U_BUY, U_HI, U_MAIL}

\* The termination keywords of main, as typed.
U_EXIT == <<"E","x","i","t">>
U_QUIT == <<"q","u","i","t">>

EOF == <<"EOF">>

Lines == Utterances \cup {U_EXIT, U_QUIT, EOF}

\* The module globals after import: state = AgentState(), llm built or None.
InitState ==
    /\ awaiting_field = None
    /\ lead_data = EmptyDict
    /\ memory = <<>>
    /\ llm \in BOOLEAN
    /\ pc = "running"
    /\ captures = <<>>
    /\ printed = <<>>
    /\ trace = <<>>
    /\ line = <<>>

Init ==
    /\ InitState
    /\ fn_arg = <<>>
    /\ fn_result = <<>>

\* The state handle_user_input starts from.
CallState ==
    [awaiting_field |-> awaiting_field, lead_data |-> lead_data, memory |-> memory,
     llm |-> llm, captures |-> captures, printed |-> <<>>, raised |-> FALSE,
     llm_call |-> "none", turn |-> Len(trace) + 1]

\* One call handle_user_input(raw), in a run of at most max calls; r is the
\* state the call leaves.
Call(raw, outcome, fail, max) ==
    \E r \in {handle_user_input(CallState, raw, outcome, fail)} :
        /\ pc = "running"
        /\ Len(trace) < max
        /\ awaiting_field' = r.awaiting_field
        /\ lead_data' = r.lead_data
        /\ memory' = r.memory
        /\ captures' = r.captures
        /\ printed' = r.printed
        /\ pc' = IF r.raised THEN "crashed" ELSE pc
        /\ trace' = Append(trace, [user |-> raw, awaiting |-> awaiting_field,
                                   lead |-> lead_data, failed |-> r.raised,
                                   llm_call |-> r.llm_call])
        /\ UNCHANGED <<llm, fn_arg, fn_result>>

\* handle_user_input called with any utterance, every output step succeeding.
HandleUserInput ==
    /\ \E raw \in Utterances : \E outcome \in LlmOutcomes :
            Call(raw, outcome, "none", MaxTurns)
    /\ UNCHANGED line

\* The same, in a long run.
HandleUserInputLong ==
    /\ \E raw \in LongUtterances : \E outcome \in LlmOutcomes :
            Call(raw, outcome, "none", MaxLongTurns)
    /\ UNCHANGED line

\* handle_user_input called with any utterance, an output step possibly raising.
HandleUserInputFailing ==
    /\ \E raw \in Utterances : \E outcome \in LlmOutcomes : \E fail \in FailPoints :
            Call(raw, outcome, fail, MaxTurns)
    /\ UNCHANGED line

\* Mutant: the keyword is compared without lower().
IsExit_case_sensitive(user) ==
    user \in {<<"e","x","i","t">>, <<"q","u","i","t">>}

\* user.lower() in ("exit", "quit")
IsExit(user) == lower(user) \in {<<"e","x","i","t">>, <<"q","u","i","t">>}

\* One iteration of the loop of main on one line of input.
MainLoop ==
    \E input \in Lines : \E outcome \in LlmOutcomes :
        LET user == strip(input)
        IN  /\ line' = input
            /\ IF input = EOF
               THEN /\ pc = "running"
                    /\ pc' = "ended"
                    /\ printed' = << <<"\nBye.">> >>
                    /\ UNCHANGED <<awaiting_field, lead_data, memory, llm, captures,
                                   trace, fn_arg, fn_result>>
               ELSE IF user = <<>>
               THEN /\ pc = "running"
                    /\ UNCHANGED <<awaiting_field, lead_data, memory, llm, pc, captures,
                                   printed, trace, fn_arg, fn_result>>
               ELSE IF IsExit(user)
               THEN /\ pc = "running"
                    /\ pc' = "ended"
                    /\ printed' = << <<"Bye.">> >>
                    /\ UNCHANGED <<awaiting_field, lead_data, memory, llm, captures,
                                   trace, fn_arg, fn_result>>
               ELSE Call(user, outcome, "none", MaxTurns)

Next == HandleUserInput

Spec == Init /\ [][Next]_vars

NextLong == HandleUserInputLong

SpecLong == Init /\ [][NextLong]_vars

NextFail == HandleUserInputFailing

SpecFail == Init /\ [][NextFail]_vars

NextMain == MainLoop

\* The pieces the texts given to detect_intent are made of: nothing, a word of
\* no group, a high-intent keyword, a pricing keyword, a greeting keyword, and
\* the keyword that is in both the high-intent and the pricing group.
IntentPieces ==
    { <<>>,
      <<"o","k"," ">>,
      <<"B","u","y">>,
      <<"C","O","S","T">>,
      <<"h","e","y">>,
      <<"p","r","o"," ","p","l","a","n">> }

RECURSIVE TextsOf(_)
\* The texts made of at most n pieces.
TextsOf(n) ==
    IF n = 0 THEN {<<>>}
    ELSE TextsOf(n - 1) \cup {p \o t : p \in IntentPieces, t \in TextsOf(n - 1)}

IntentTexts == TextsOf(MaxPieces)

InitIntent ==
    /\ InitState
    /\ fn_arg \in IntentTexts
    /\ fn_result = <<>>

\* detect_intent(fn_arg)
ApplyDetectIntent ==
    /\ fn_result = <<>>
    /\ fn_result' = <<detect_intent(fn_arg)>>
    /\ UNCHANGED <<awaiting_field, lead_data, memory, llm, pc, captures, printed, trace,
                   line, fn_arg>>

NextIntent == ApplyDetectIntent

SpecIntent == InitIntent /\ [][NextIntent]_vars

\* The characters the texts given to is_valid_email are made of.
EmailAlphabet == {"a", "@", ".", " "}

EmailTexts == UNION {[1..n -> EmailAlphabet] : n \in 0..MaxEmailLen}

InitEmail ==
    /\ InitState
    /\ fn_arg \in EmailTexts
    /\ fn_result = <<>>

\* is_valid_email(fn_arg)
ApplyIsValidEmail ==
    /\ fn_result = <<>>
    /\ fn_result' = <<is_valid_email(fn_arg)>>
    /\ UNCHANGED <<awaiting_field, lead_data, memory, llm, pc, captures, printed, trace,
                   line, fn_arg>>

NextEmail == ApplyIsValidEmail

SpecEmail == InitEmail /\ [][NextEmail]_vars

SpecMain == Init /\ [][NextMain]_vars

\* The utterance raw is stored by a call that starts with awaiting_field set:
\* only an email is validated.
Accepted(raw) == awaiting_field = "email" => is_valid_email(raw)

\* One call handle_user_input(raw) in a run whose input does not end: after
\* MaxLiveTurns calls the run only finishes the funnel it is in, which takes at
\* most one accepted utterance per field.
LiveCall(raw, outcome) ==
    /\ Len(trace) < MaxLiveTurns \/ (awaiting_field # None /\ Accepted(raw))
    /\ Call(raw, outcome, "none", MaxLiveTurns + Len(FieldOrder))
    /\ UNCHANGED line

HandleUserInputLive ==
    \E raw \in LongUtterances : \E outcome \in LlmOutcomes : LiveCall(raw, outcome)

\* The user answers the email prompt with an utterance is_valid_email accepts.
ValidEmailTurn ==
    /\ awaiting_field = "email"
    /\ \E raw \in LongUtterances : \E outcome \in LlmOutcomes :
            is_valid_email(raw) /\ LiveCall(raw, outcome)

NextLive == HandleUserInputLive

\* main blocks in input() until a line arrives and then runs the handler to its
\* return: the input does not end (weak fairness of the call), and the user
\* eventually answers a pending email prompt with a valid address.
SpecLive ==
    /\ Init
    /\ [][NextLive]_vars
    /\ WF_vars(HandleUserInputLive)
    /\ SF_vars(ValidEmailTurn)

-----------------------------------------------------------------------------
(* Vocabulary of the properties *)

Fields == {"name", "email", "platform"}

Turns == 1..Len(trace)

LastTurn == trace[Len(trace)]

\* The turns in which mock_lead_capture was invoked.
CaptureTurns == {captures[i].turn : i \in DOMAIN captures}

\* Turn t stored the third missing field: it started with a field awaited that
\* lead_data lacked, two other fields stored, and its utterance was accepted.
StoresThirdField(t) ==
    /\ trace[t].awaiting \in Fields \ DOMAIN trace[t].lead
    /\ Cardinality(DOMAIN trace[t].lead) = 2
    /\ trace[t].awaiting = "email" => is_valid_email(trace[t].user)

\* The latest turn before t that started with field f awaited (0 when none).
LatestAwaiting(f, t) ==
    LET S == {k \in 1..(t - 1) : trace[k].awaiting = f}
    IN  IF S = {} THEN 0 ELSE CHOOSE k \in S : \A j \in S : j <= k

\* The turn of the capture before the i-th (0 for the first).
PreviousCaptureTurn(i) == IF i = 1 THEN 0 ELSE captures[i - 1].turn

IsText(x) == x # NoneText

Blank(raw) == strip(raw) = <<>>

-----------------------------------------------------------------------------
(* C1 *)

\* C1: the capture action is invoked exactly once per completed funnel: the
\* number of invocations equals the number of turns that stored the third
\* missing field, no turn invokes it twice, and every invocation happens in a
\* turn that started with a field awaited and with name, email and platform all
\* in lead_data at the call.
C1_CaptureOncePerFunnel ==
    /\ Len(captures) = Cardinality({t \in Turns : StoresThirdField(t)})
    /\ \A i, j \in DOMAIN captures : i # j => captures[i].turn # captures[j].turn
    /\ \A i \in DOMAIN captures :
        /\ captures[i].turn \in Turns
        /\ trace[captures[i].turn].awaiting # None
        /\ StoresThirdField(captures[i].turn)
        /\ captures[i].fields = Fields

\* Two funnels were completed in one run, each with its capture.
C1_Witness ==
    /\ Len(captures) = 2
    /\ Cardinality({t \in Turns : StoresThirdField(t)}) = 2

-----------------------------------------------------------------------------
(* C2 *)

\* C2 as stated: at every invocation of the capture action the three arguments
\* are non-empty strings equal to their own trim and the email argument
\* satisfies is_valid_email, whatever utterances were delivered, blank ones
\* included.
C2_ArgsNonEmpty ==
    \A i \in DOMAIN captures :
        /\ \A a \in {captures[i].name, captures[i].email, captures[i].platform} :
            IsText(a) /\ a # <<>> /\ a = strip(a)
        /\ is_valid_email(captures[i].email)

\* C2 as amended: at every invocation of the capture action the three
\* arguments are strings equal to their own trim and the email argument
\* satisfies is_valid_email (so it is not empty); name and platform are empty
\* exactly when the utterance given while that field was awaited is empty or
\* whitespace-only.
C2_ArgsTrimmedEmailValid ==
    \A i \in DOMAIN captures :
        LET c == captures[i]
            tn == LatestAwaiting("name", c.turn)
        IN  /\ \A a \in {c.name, c.email, c.platform} : IsText(a) /\ a = strip(a)
            /\ is_valid_email(c.email)
            /\ c.email # <<>>
            /\ tn > 0
            /\ (c.name = <<>>) <=> Blank(trace[tn].user)
            /\ (c.platform = <<>>) <=> Blank(trace[c.turn].user)

\* The capture action was invoked with an empty name, given as a blank
\* utterance, and with the padded e-mail address trimmed.
C2_Witness ==
    \E i \in DOMAIN captures :
        /\ captures[i].name = <<>>
        /\ captures[i].email = strip(U_MAIL)
        /\ captures[i].email # U_MAIL

-----------------------------------------------------------------------------
(* C3 *)

\* C3: clear-before-invoke: awaiting_field is None at every invocation of the
\* capture action, and it is None in the state that results from a turn that
\* invoked it.
C3_ClearBeforeInvoke ==
    /\ \A i \in DOMAIN captures : captures[i].awaiting = None
    /\ (Len(trace) \in CaptureTurns) => awaiting_field = None

\* A turn has just invoked the capture action.
C3_Witness ==
    /\ captures # <<>>
    /\ Len(trace) \in CaptureTurns
    /\ trace[Len(trace)].awaiting = "platform"

-----------------------------------------------------------------------------
(* C4 *)

\* C4: between turns lead_data holds fewer than 3 fields, and awaiting_field is
\* non-None only while lead_data holds fewer than 3 fields.
C4_NeverAllCollectedBetweenTurns ==
    /\ Cardinality(DOMAIN lead_data) < 3
    /\ awaiting_field # None => Cardinality(DOMAIN lead_data) < 3

\* The turn that stored the third field has ended: nothing is left of it.
C4_Witness ==
    /\ trace # <<>>
    /\ StoresThirdField(Len(trace))
    /\ lead_data = EmptyDict

-----------------------------------------------------------------------------
(* C5 *)

\* C5: every capture is invoked with the values collected in its own funnel:
\* platform is the trimmed utterance of the capturing turn, email the trimmed
\* utterance of the latest turn that awaited email, which is the first valid
\* one since the name was given, name the trimmed utterance of the latest turn
\* that awaited name, all three turns later than the previous capture; and
\* the capturing turn leaves lead_data empty and awaiting_field None.
C5_CaptureGetsFunnelValues ==
    /\ \A i \in DOMAIN captures :
        LET c == captures[i]
            te == LatestAwaiting("email", c.turn)
            tn == LatestAwaiting("name", te)
        IN  /\ trace[c.turn].awaiting = "platform"
            /\ c.platform = strip(trace[c.turn].user)
            /\ PreviousCaptureTurn(i) < tn /\ tn < te /\ te < c.turn
            /\ c.email = strip(trace[te].user)
            /\ is_valid_email(trace[te].user)
            /\ \A k \in (tn + 1)..(te - 1) :
                trace[k].awaiting = "email" /\ ~is_valid_email(trace[k].user)
            /\ c.name = strip(trace[tn].user)
    /\ (Len(trace) \in CaptureTurns) => (lead_data = EmptyDict /\ awaiting_field = None)

\* A second funnel was captured with a name and a platform that differ from
\* those of the first.
C5_Witness ==
    /\ Len(captures) = 2
    /\ captures[1].name # captures[2].name
    /\ captures[1].platform # captures[2].platform
    /\ Len(trace) \in CaptureTurns

-----------------------------------------------------------------------------
(* Vocabulary of the properties of one turn *)

\* This step is one call of handle_user_input.
IsTurn == Len(trace') = Len(trace) + 1

\* The utterance of the call this step makes, as handle_user_input trims it.
TurnText == strip(trace'[Len(trace')].user)

\* This step appends exactly the entry (user_text, agent_text) to the history,
\* the oldest entry leaving when the history is full.
AppendsOne(user_text, agent_text) ==
    LET e == [user |-> user_text, agent |-> agent_text]
    IN  IF Len(memory) < history_turns
        THEN memory' = Append(memory, e)
        ELSE memory' = Append(Tail(memory), e)

\* The last n turns all started with email awaited and gave an invalid address.
LastRejected(n) ==
    /\ Len(trace) >= n
    /\ \A k \in (Len(trace) - n + 1)..Len(trace) :
        trace[k].awaiting = "email" /\ ~is_valid_email(trace[k].user)

-----------------------------------------------------------------------------
(* C6 *)

\* C6: a turn that starts with email awaited and whose utterance fails
\* is_valid_email prints the invalid-email re-prompt and nothing else, leaves
\* awaiting_field at email and lead_data as it was, invokes no capture, and
\* appends the one entry (utterance, re-prompt) to the history.
C6_InvalidEmailReprompts ==
    [][(IsTurn /\ awaiting_field = "email" /\ ~is_valid_email(trace'[Len(trace')].user))
        => /\ printed' = <<INVALID_EMAIL>>
           /\ awaiting_field' = "email"
           /\ lead_data' = lead_data
           /\ "email" \notin DOMAIN lead_data'
           /\ captures' = captures
           /\ AppendsOne(TurnText, INVALID_EMAIL)]_vars

\* Three invalid addresses in a row were re-prompted, the last one with the
\* history already full, and email is still awaited with only the name stored.
C6_Witness ==
    /\ LastRejected(3)
    /\ awaiting_field = "email"
    /\ DOMAIN lead_data = {"name"}
    /\ Len(trace) > history_turns
    /\ memory[Len(memory)].agent = INVALID_EMAIL

-----------------------------------------------------------------------------
(* C7 *)

RECURSIVE IsSubsequence(_, _)
\* a is b with some elements left out.
IsSubsequence(a, b) ==
    IF a = <<>> THEN TRUE
    ELSE IF b = <<>> THEN FALSE
    ELSE IF Head(a) = Head(b) THEN IsSubsequence(Tail(a), Tail(b))
    ELSE IsSubsequence(a, Tail(b))

\* The user texts of the history, oldest first.
MemoryUsers == [k \in 1..Len(memory) |-> memory[k].user]

\* The trimmed utterances of turns a..b, in turn order.
TurnUsers(a, b) == [k \in 1..(b - a + 1) |-> strip(trace[a + k - 1].user)]

RECURSIVE AppendedUsers(_)
\* The user texts of the entries the first t turns appended, in append order:
\* one per turn, and a second one with empty user text for a capturing turn.
AppendedUsers(t) ==
    IF t = 0 THEN <<>>
    ELSE AppendedUsers(t - 1) \o <<strip(trace[t].user)>>
            \o (IF t \in CaptureTurns THEN << <<>> >> ELSE <<>>)

\* The last n elements of s (all of s when it has fewer).
LastOf(s, n) == IF Len(s) <= n THEN s ELSE SubSeq(s, Len(s) - n + 1, Len(s))

\* C7 as stated: the history never holds more than history_turns entries, and
\* once history_turns + 1 turns were handled the entries of the most recent
\* history_turns turns are all present in turn order (which leaves no room for
\* the first of those turns).
C7_LastTurnsPresent ==
    /\ Len(memory) <= history_turns
    /\ Len(trace) >= history_turns + 1 =>
        /\ IsSubsequence(TurnUsers(Len(trace) - history_turns + 1, Len(trace)), MemoryUsers)
        /\ Len(memory) = history_turns

\* C7 as amended: the history never holds more than history_turns entries and
\* is always the most recent history_turns appended entries in append order,
\* where a funnel-completing turn appends two entries (the second with empty
\* user text); so the most recent history_turns turns are all present only
\* when none of them completed a funnel.
C7_LastEntriesPresent ==
    /\ Len(memory) <= history_turns
    /\ MemoryUsers = LastOf(AppendedUsers(Len(trace)), history_turns)
    /\ (Len(trace) >= history_turns + 1
            /\ CaptureTurns \cap ((Len(trace) - history_turns + 1)..Len(trace)) = {})
        => MemoryUsers = TurnUsers(Len(trace) - history_turns + 1, Len(trace))

\* history_turns + 1 turns were handled, one of the last history_turns turns
\* completed a funnel, and the history is full.
C7_Witness ==
    /\ Len(trace) >= history_turns + 1
    /\ CaptureTurns \cap ((Len(trace) - history_turns + 1)..Len(trace)) # {}
    /\ Len(memory) = history_turns

-----------------------------------------------------------------------------
(* C8 *)

\* awaiting_field and lead_data as a complete call of handle_user_input leaves
\* them, for the call recorded as t.
CompleteTurn(t) ==
    LET r == handle_user_input(
                [awaiting_field |-> t.awaiting, lead_data |-> t.lead, memory |-> <<>>,
                 llm |-> FALSE, captures |-> <<>>, printed |-> <<>>, raised |-> FALSE,
                 llm_call |-> "none", turn |-> 0],
                t.user, "str", "none")
    IN  <<r.awaiting_field, r.lead_data>>

\* C8: after every call of handle_user_input, one in which an output step or
\* the capture action raised included, awaiting_field and lead_data both have
\* their values of before the call or both have the values the complete call
\* gives them; awaiting_field = None with a non-empty lead_data is never seen.
C8_TurnIsAtomic ==
    /\ trace # <<>> =>
        \/ <<awaiting_field, lead_data>> = <<LastTurn.awaiting, LastTurn.lead>>
        \/ <<awaiting_field, lead_data>> = CompleteTurn(LastTurn)
    /\ ~(awaiting_field = None /\ lead_data # EmptyDict)

-----------------------------------------------------------------------------
(* C9 *)

\* C9: a turn that starts in Idle with a high-intent utterance leaves lead_data
\* empty and awaiting_field at name, prints the high-intent entry prompt and
\* nothing else, and invokes no capture; a turn that starts in Idle with any
\* other intent does not leave awaiting_field at name.
C9_HighIntentStartsFunnel ==
    [][(IsTurn /\ awaiting_field = None)
        => /\ detect_intent(TurnText) = "high_intent"
                => /\ lead_data' = EmptyDict
                   /\ awaiting_field' = "name"
                   /\ printed' = <<HIGH_INTENT_PROMPT>>
                   /\ captures' = captures
           /\ detect_intent(TurnText) # "high_intent" => awaiting_field' = None]_vars

\* A high-intent utterance given in Idle after a completed funnel has started
\* a new funnel.
C9_Witness ==
    /\ trace # <<>>
    /\ LastTurn.awaiting = None
    /\ LastTurn.user = U_BUY
    /\ awaiting_field = "name"
    /\ captures # <<>>

-----------------------------------------------------------------------------
(* C10 *)

\* C10: a turn that starts in Idle with intent greeting, pricing or other
\* leaves awaiting_field None and lead_data empty, invokes no capture, prints
\* one reply and appends the one entry (utterance, reply) to the history; for
\* greeting the reply is the fixed greeting text.
C10_IdleSmallTalkKeepsState ==
    [][(IsTurn /\ awaiting_field = None
            /\ detect_intent(TurnText) \in {"greeting", "pricing", "other"})
        => /\ awaiting_field' = None
           /\ lead_data' = lead_data
           /\ lead_data' = EmptyDict
           /\ captures' = captures
           /\ Len(printed') = 1
           /\ AppendsOne(TurnText, printed'[1])
           /\ detect_intent(TurnText) = "greeting" => printed' = <<GREETING>>]_vars

\* A greeting, a pricing question and an utterance of intent other were each
\* answered in Idle, and the controller is still in Idle.
C10_Witness ==
    /\ awaiting_field = None
    /\ lead_data = EmptyDict
    /\ \A u \in {U_HI, U_PRICE, U_MAIL} :
        \E k \in Turns : trace[k].awaiting = None /\ trace[k].user = u
    /\ \E k \in 1..Len(memory) : memory[k] = [user |-> U_HI, agent |-> GREETING]

-----------------------------------------------------------------------------
(* C11 *)

\* The record of the call this step makes.
ThisTurn == trace'[Len(trace')]

\* C11: a turn that starts in Idle with intent other never ends with a failure
\* leaving the call: it prints the fallback-unavailable message when llm is
\* None and the fallback-error message when the call of the model raised,
\* appends the one entry (utterance, reply) to the history, and leaves the
\* state Idle with lead_data empty.
C11_FallbackAbsorbsFailure ==
    [][(IsTurn /\ awaiting_field = None /\ detect_intent(TurnText) = "other")
        => /\ pc' = "running"
           /\ ~ThisTurn.failed
           /\ ~llm => (ThisTurn.llm_call = "none" /\ printed' = <<LLM_UNAVAILABLE>>)
           /\ llm => ThisTurn.llm_call \in {"raised", "returned"}
           /\ ThisTurn.llm_call = "raised" => printed' = <<LLM_ERROR>>
           /\ ThisTurn.llm_call = "returned" => printed' = <<LlmText(TurnText)>>
           /\ Len(printed') = 1
           /\ AppendsOne(TurnText, printed'[1])
           /\ awaiting_field' = None
           /\ lead_data' = EmptyDict
           /\ captures' = captures]_vars

\* The model was called for an utterance of intent other and raised: the
\* fallback-error message was printed and saved, and the run goes on in Idle.
C11_Witness ==
    /\ trace # <<>>
    /\ llm
    /\ LastTurn.awaiting = None
    /\ LastTurn.llm_call = "raised"
    /\ printed = <<LLM_ERROR>>
    /\ memory[Len(memory)] = [user |-> strip(LastTurn.user), agent |-> LLM_ERROR]
    /\ pc = "running"
    /\ awaiting_field = None

-----------------------------------------------------------------------------
(* C12 *)

\* Some keyword of the group toks is a substring of text, letter case ignored.
HasKeyword(toks, text) ==
    LET t == lower(text)
    IN  \E k \in 1..Len(toks) : \E i \in 1..Len(t) : \E j \in i..Len(t) :
            SubSeq(t, i, j) = toks[k]

\* C12: detect_intent applies the groups in the order high_intent, pricing,
\* greeting, other, the first match winning: the result is high_intent for
\* every text with a high-intent keyword, pricing exactly when there is a
\* pricing keyword and no high-intent one, greeting exactly when there is a
\* greeting keyword and none of the two other groups, other exactly when there
\* is no keyword at all.
C12_IntentPriority ==
    fn_result # <<>> =>
        LET r == fn_result[1]
            H == HasKeyword(high_intent_tokens, fn_arg)
            P == HasKeyword(pricing_tokens, fn_arg)
            G == HasKeyword(greeting_tokens, fn_arg)
        IN  /\ H => r = "high_intent"
            /\ r = "high_intent" <=> H
            /\ r = "pricing" <=> (~H /\ P)
            /\ r = "greeting" <=> (~H /\ ~P /\ G)
            /\ r = "other" <=> (~H /\ ~P /\ ~G)

\* A text with a pricing keyword, a greeting keyword and then a high-intent
\* keyword was classified high_intent.
C12_Witness ==
    /\ fn_arg = <<"C","O","S","T">> \o <<"h","e","y">> \o <<"B","u","y">>
    /\ fn_result = <<"high_intent">>

-----------------------------------------------------------------------------
(* C14 *)

\* s without its leading and trailing whitespace.
Trimmed(s) ==
    LET inner == {k \in 1..Len(s) : s[k] \notin Whitespace}
    IN  IF inner = {} THEN <<>>
        ELSE SubSeq(s, CHOOSE k \in inner : \A m \in inner : k <= m,
                       CHOOSE k \in inner : \A m \in inner : m <= k)

NoAt(t) == \A k \in 1..Len(t) : t[k] # "@"

\* t is a "@" b "." c with a, b and c non-empty and without "@".
EmailShape(t) ==
    \E i \in 2..Len(t) : \E j \in (i + 2)..(Len(t) - 1) :
        /\ t = SubSeq(t, 1, i - 1) \o <<"@">> \o SubSeq(t, i + 1, j - 1) \o <<".">>
                \o SubSeq(t, j + 1, Len(t))
        /\ NoAt(SubSeq(t, 1, i - 1))
        /\ NoAt(SubSeq(t, i + 1, j - 1))
        /\ NoAt(SubSeq(t, j + 1, Len(t)))

\* C14: is_valid_email(s) is true exactly when the whole of the trimmed s has
\* the shape non-"@" characters, "@", non-"@" characters, ".", non-"@"
\* characters, each run non-empty; and is_valid_email(s) is
\* is_valid_email(trim(s)).
C14_EmailShapeOfTrimmed ==
    fn_result # <<>> =>
        /\ fn_result[1] <=> EmailShape(Trimmed(fn_arg))
        /\ fn_result[1] <=> is_valid_email(Trimmed(fn_arg))

\* An address with a leading blank was accepted.
C14_Witness ==
    /\ fn_arg = <<" ", "a", "@", "a", ".", "a">>
    /\ fn_result = <<TRUE>>

-----------------------------------------------------------------------------
(* C13 *)

\* u is w up to letter case, for a lower-case word w.
SameWord(u, w) ==
    /\ Len(u) = Len(w)
    /\ \A k \in 1..Len(w) :
        \/ u[k] = w[k]
        \/ (u[k] \in DOMAIN UpperToLower /\ UpperToLower[u[k]] = w[k])

\* u is exit or quit in any letter case.
IsExitWord(u) ==
    SameWord(u, <<"e","x","i","t">>) \/ SameWord(u, <<"q","u","i","t">>)

\* C13: the loop of main processes a turn exactly for the lines whose trimmed
\* text is non-empty and is not exit or quit in any letter case: a blank line
\* changes neither awaiting_field, lead_data nor history, and exit or quit ends
\* the session in every state without storing the line, without a history
\* entry and without a capture; an ended session reads no further line.
C13_LoopFiltersLines ==
    [][/\ pc # "running" => FALSE
       /\ (pc = "running" /\ line' # EOF) =>
            LET u == Trimmed(line')
            IN  /\ u = <<>> =>
                    UNCHANGED <<awaiting_field, lead_data, memory, captures, trace, pc>>
                /\ (u # <<>> /\ IsExitWord(u)) =>
                    /\ pc' = "ended"
                    /\ UNCHANGED <<awaiting_field, lead_data, memory, captures, trace>>
                /\ (u # <<>> /\ ~IsExitWord(u)) =>
                    /\ IsTurn
                    /\ ThisTurn.user = u
                /\ IsTurn => (u # <<>> /\ ~IsExitWord(u))]_vars

\* Exit was typed while the email was awaited: the session ended with the name
\* still stored, email still awaited and nothing captured.
C13_Witness ==
    /\ pc = "ended"
    /\ line = U_EXIT
    /\ awaiting_field = "email"
    /\ DOMAIN lead_data = {"name"}
    /\ captures = <<>>
    /\ \A k \in 1..Len(memory) : memory[k].user # U_EXIT

-----------------------------------------------------------------------------
(* C15 *)

\* The position of field f in the order name, email, platform.
Rank(f) == CASE f = "name" -> 1 [] f = "email" -> 2 [] f = "platform" -> 3

\* f is the first field, in that order, that the dict d lacks.
IsFirstMissing(f, d) ==
    /\ f \in Fields \ DOMAIN d
    /\ \A g \in Fields : Rank(g) < Rank(f) => g \in DOMAIN d

\* This step is a call that starts with a field awaited and accepts the
\* utterance as its value.
AcceptsValue ==
    /\ IsTurn
    /\ awaiting_field # None
    /\ awaiting_field = "email" => is_valid_email(ThisTurn.user)

\* C15: the fields of a funnel are collected in the order name, email,
\* platform: a turn that accepts a value leaves awaiting_field at the first
\* field lead_data lacks and prints the prompt of that field alone (the email
\* prompt after the name, the platform prompt after the email), and a field
\* that is stored is never the one awaited.
C15_FieldsInFixedOrder ==
    [][/\ AcceptsValue =>
            /\ awaiting_field = "name" =>
                (awaiting_field' = "email" /\ printed' = <<prompt_map.email>>)
            /\ awaiting_field = "email" =>
                (awaiting_field' = "platform" /\ printed' = <<prompt_map.platform>>)
            /\ awaiting_field' # None =>
                /\ lead_data' = DictSet(lead_data, awaiting_field, TurnText)
                /\ IsFirstMissing(awaiting_field', lead_data')
       /\ awaiting_field' # None => awaiting_field' \notin DOMAIN lead_data']_vars

\* A valid email was accepted after the name: the platform is asked for.
C15_Witness ==
    /\ trace # <<>>
    /\ LastTurn.awaiting = "email"
    /\ awaiting_field = "platform"
    /\ DOMAIN lead_data = {"name", "email"}
    /\ printed = <<prompt_map.platform>>

-----------------------------------------------------------------------------
(* C16 *)

\* The line mock_lead_capture prints starts with this piece.
IsCaptureLine(text) == text # <<>> /\ Head(text) = Head(CaptureLine(<<>>, <<>>, <<>>))

\* C16: a call of handle_user_input that invokes no capture prints one reply
\* and appends the one entry (trimmed utterance, reply) to the history; the
\* funnel-completing call prints the acknowledgment naming the collected name,
\* the capture confirmation and the closing line, and appends two entries in
\* this order: (trimmed utterance, acknowledgment), (empty text, closing
\* line); the capture confirmation is in no entry of the history.
C16_HistoryEntriesPerTurn ==
    [][IsTurn =>
        /\ IF Len(captures') = Len(captures)
           THEN /\ Len(printed') = 1
                /\ AppendsOne(TurnText, printed'[1])
           ELSE LET ack == <<"Thanks ">> \o lead_data["name"]
                                \o <<"! Submitting your details now...">>
                    e1 == [user |-> TurnText, agent |-> ack]
                    e2 == [user |-> <<>>, agent |-> FINAL_ACK]
                IN  /\ Len(captures') = Len(captures) + 1
                    /\ Len(printed') = 3
                    /\ printed'[1] = ack
                    /\ IsCaptureLine(printed'[2])
                    /\ printed'[3] = FINAL_ACK
                    /\ memory' = LastOf(memory \o <<e1, e2>>, history_turns)
        /\ \A k \in 1..Len(memory') : ~IsCaptureLine(memory'[k].agent)]_vars

\* A funnel-completing turn has ended with the history full: its last two
\* entries are the acknowledgment and the closing line.
C16_Witness ==
    /\ Len(trace) \in CaptureTurns
    /\ Len(memory) = history_turns
    /\ Len(trace) > history_turns
    /\ memory[Len(memory)] = [user |-> <<>>, agent |-> FINAL_ACK]
    /\ memory[Len(memory) - 1].user = strip(LastTurn.user)
    /\ memory[Len(memory) - 1].agent = printed[1]

-----------------------------------------------------------------------------
(* C17 *)

\* The replies of the collecting branch.
CollectingReplies(name) ==
    { INVALID_EMAIL, prompt_map.name, prompt_map.email, prompt_map.platform,
      <<"Thanks ">> \o name \o <<"! Submitting your details now...">> }

\* C17: a capture flow cannot be abandoned: in every call that starts with a
\* field awaited the utterance is taken as the value of that field (stored
\* trimmed, or rejected as an email) and is answered by a reply of the
\* collecting branch, never classified; unless the call completes the funnel
\* it keeps every stored field, does not move awaiting_field back, and does
\* not return to Idle: awaiting_field becomes None exactly in the call that
\* invokes the capture.
C17_FlowCannotBeAbandoned ==
    [][(IsTurn /\ awaiting_field # None) =>
        LET captured == Len(captures') = Len(captures) + 1
            accepted == awaiting_field = "email" => is_valid_email(ThisTurn.user)
            name == IF "name" \in DOMAIN lead_data THEN lead_data["name"] ELSE TurnText
        IN  /\ printed'[1] \in CollectingReplies(name)
            /\ captured \/ captures' = captures
            /\ awaiting_field' = None <=> captured
            /\ ~captured =>
                /\ \A f \in DOMAIN lead_data :
                    f \in DOMAIN lead_data' /\ lead_data'[f] = lead_data[f]
                /\ Rank(awaiting_field') >= Rank(awaiting_field)
                /\ accepted => lead_data'[awaiting_field] = TurnText
                /\ ~accepted => (lead_data' = lead_data /\ awaiting_field' = awaiting_field)
            /\ captured =>
                /\ awaiting_field = "platform"
                /\ captures'[Len(captures')].platform = TurnText]_vars

\* A high-intent phrase was taken as the name and a pricing question was then
\* rejected as an email: the name is kept and email is still awaited.
C17_Witness ==
    /\ Len(trace) >= 3
    /\ trace[Len(trace) - 1].awaiting = "name"
    /\ trace[Len(trace) - 1].user = U_BUY
    /\ LastTurn.awaiting = "email"
    /\ LastTurn.user = U_PRICE
    /\ awaiting_field = "email"
    /\ lead_data = [name |-> U_BUY]
    /\ printed = <<INVALID_EMAIL>>

-----------------------------------------------------------------------------
(* C18 *)

\* The turn in which the funnel that turn t belongs to was entered: the latest
\* earlier turn that started with no field awaited.
EntryTurn(t) ==
    CHOOSE e \in 1..t : /\ trace[e].awaiting = None
                        /\ \A i \in (e + 1)..t : trace[i].awaiting # None

\* The turns after the entry of t's funnel, up to t, whose utterance was stored.
AcceptedSince(t) ==
    {i \in (EntryTurn(t) + 1)..t :
        trace[i].awaiting = "email" => is_valid_email(trace[i].user)}

\* The capture of a funnel comes after exactly three accepted values, one per
\* field.
ThreeAccepted ==
    \A c \in DOMAIN captures :
        /\ Cardinality(AcceptedSince(captures[c].turn)) = 3
        /\ {trace[i].awaiting : i \in AcceptedSince(captures[c].turn)} = Fields

\* A name or platform utterance advances the flow in its turn.
AdvancesInOneTurn ==
    [][(IsTurn /\ awaiting_field \in {"name", "platform"}) =>
        /\ awaiting_field' # awaiting_field
        /\ awaiting_field = "name" => awaiting_field' = "email"
        /\ awaiting_field = "platform" =>
            (awaiting_field' = None /\ Len(captures') = Len(captures) + 1)]_vars

\* The call just made invoked the capture and left no field awaited.
Captured == awaiting_field = None /\ Len(trace) \in CaptureTurns

\* C18: every funnel that is entered reaches the capture after exactly three
\* accepted values; a name or platform utterance advances the flow in one
\* turn; and when the input does not end and the user eventually gives a
\* valid email while email is pending, a funnel that is in progress is
\* followed by its capture and by the return to Idle.
C18_FunnelCompletes ==
    /\ []ThreeAccepted
    /\ AdvancesInOneTurn
    /\ (awaiting_field # None) ~> Captured

\* A funnel in which an email was rejected has been completed.
C18_Witness ==
    /\ Len(captures) = 1
    /\ awaiting_field = None
    /\ LastTurn.awaiting = "platform"
    /\ \E i \in Turns : trace[i].awaiting = "email" /\ ~is_valid_email(trace[i].user)

-----------------------------------------------------------------------------
(* C19 *)

\* The fields that come before f in the order name, email, platform.
Preceding(f) == {g \in Fields : Rank(g) < Rank(f)}

\* awaiting_field and lead_data agree.
FunnelShape ==
    IF awaiting_field = None
    THEN lead_data = EmptyDict
    ELSE /\ awaiting_field \in Fields
         /\ awaiting_field = choose_next_field(lead_data)
         /\ DOMAIN lead_data = Preceding(awaiting_field)

\* C19: between calls, lead_data is empty when no field is awaited, and when
\* one is awaited it is choose_next_field(lead_data) and the keys of lead_data
\* are exactly the fields before it in the order name, email, platform; so the
\* call that enters a funnel on a high-intent utterance finds lead_data empty
\* and its reset discards no stored field.
C19_AwaitingMatchesLeadData ==
    /\ []FunnelShape
    /\ [][(IsTurn /\ awaiting_field = None /\ awaiting_field' # None) =>
            /\ lead_data = EmptyDict
            /\ lead_data' = EmptyDict
            /\ awaiting_field' = "name"]_vars

\* A second funnel has been entered after a completed one, whose name was blank.
C19_Witness ==
    /\ Len(captures) = 1
    /\ captures[1].name = <<>>
    /\ awaiting_field = "name"
    /\ lead_data = EmptyDict
    /\ LastTurn.awaiting = None
    /\ LastTurn.lead = EmptyDict

-----------------------------------------------------------------------------
(* C20 *)

\* The name prompt of the collecting branch is neither on screen nor in the
\* history.
NamePromptUnused ==
    /\ \A k \in DOMAIN printed : printed[k] # prompt_map.name
    /\ \A k \in DOMAIN memory : memory[k].agent # prompt_map.name

\* C20: after a call has stored a value, the next field is never name, so the
\* prompt of the collecting branch for name is emitted in no call and saved in
\* no history entry; awaiting_field becomes name only in the call that enters
\* a funnel, whose reply is the high-intent entry prompt.
C20_NamePromptNeverEmitted ==
    /\ []NamePromptUnused
    /\ [][(AcceptsValue => awaiting_field' # "name")
          /\ ((IsTurn /\ awaiting_field' = "name") =>
                /\ awaiting_field = None
                /\ detect_intent(TurnText) = "high_intent"
                /\ printed' = <<HIGH_INTENT_PROMPT>>)]_vars

\* A valid email has just been stored and the platform prompt given.
C20_Witness ==
    /\ Len(trace) >= 1
    /\ LastTurn.awaiting = "email"
    /\ is_valid_email(LastTurn.user)
    /\ "email" \in DOMAIN lead_data
    /\ awaiting_field = "platform"
    /\ printed = <<prompt_map.platform>>

====
